---- MODULE Spec2Model ----
(***************************************************************************)
(* A model of the BingoGen client: the word pool, the card generator, the  *)
(* unit converter and the export handlers of the Home page.                *)
(*                                                                         *)
(* Text is a sequence of one-character strings; a word is such a sequence  *)
(* too.  A message (error / success) is a record [text, a, b] whose a and  *)
(* b are the numbers the template string interpolates.                     *)
(***************************************************************************)
EXTENDS Integers, Sequences, FiniteSets, Bags, TLC

\* ------------------------------------------------------------------ bounds

\* Math.random() is explored at this many levels: it returns r / RandLevels
\* for some r in 0 .. RandLevels-1.
RandLevels == 2
\* The longest pool handed to the generator by the function-level harness.
MaxPool == 10
\* The largest numCards explored (the slider allows up to 100).
MaxCards == 2
\* The largest pixel value handed to convertSize by the harness.
MaxPx == 300
\* The most file parses in flight at once.
MaxParses == 1
\* The most exports in flight at once.
MaxExports == 2
\* The largest word count handed to isWordCountSufficient by the harness.
MaxWordCount == 40
\* The longest text handed to processWords by the harness.
MaxText == 5
\* The most images handed to the PDF layout by the harness.
MaxImages == 9
\* The longest array the harness hands to shuffleArray.
MaxShuffle == 4

\* -------------------------------------------------------------- characters

Min(a, b) == IF a < b THEN a ELSE b
Max(a, b) == IF a < b THEN b ELSE a

\* String.prototype.toLowerCase, one character at a time.
LowerChar(c) ==
    CASE c = "A" -> "a" [] c = "B" -> "b" [] c = "C" -> "c" [] c = "D" -> "d"
      [] c = "E" -> "e" [] c = "F" -> "f" [] c = "G" -> "g" [] c = "H" -> "h"
      [] c = "I" -> "i" [] c = "J" -> "j" [] c = "K" -> "k" [] c = "L" -> "l"
      [] OTHER -> c

\* A word left in its own casing.
keepCase(w) == w

toLowerCase(w) == [i \in DOMAIN w |-> LowerChar(w[i])]

\* The characters String.prototype.trim removes.
WhiteSpace == {" ", "\t", "\r", "\n"}

\* At most one character removed.
trimStartOnce(w) == IF w # <<>> /\ Head(w) \in WhiteSpace THEN Tail(w) ELSE w

RECURSIVE trimStart(_)
trimStart(w) ==
    IF w # <<>> /\ Head(w) \in WhiteSpace THEN trimStart(Tail(w)) ELSE w

RECURSIVE trimEnd(_)
trimEnd(w) ==
    IF w # <<>> /\ w[Len(w)] \in WhiteSpace
    THEN trimEnd(SubSeq(w, 1, Len(w) - 1))
    ELSE w

trim(w) == trimEnd(trimStart(w))

\* ------------------------------------------------------------ bingoUtils.ts

NoMsg == [text |-> "", a |-> 0, b |-> 0]
Msg(t, x, y) == [text |-> t, a |-> x, b |-> y]

\* calculateRequiredWords(gridSize, numCards)
calculateRequiredWords(gridSize, numCards) == (gridSize * gridSize) * numCards

\* A test against the words of the whole batch.
isWordCountSufficientForBatch(wordCount, gridSize, numCards) ==
    wordCount >= calculateRequiredWords(gridSize, numCards)

\* isWordCountSufficient(wordCount, gridSize, numCards)
isWordCountSufficient(wordCount, gridSize, numCards) ==
    wordCount >= gridSize * gridSize

\* Math.floor(Math.random() * (i + 1)) when Math.random() returned r / RandLevels.
RandomIndex(r, i) == (r * (i + 1)) \div RandLevels

\* A swap that loses shuffled[i]: only the first assignment is made.
SwapOverwrites(s, p, q) == [s EXCEPT ![p] = s[q]]

\* [shuffled[i], shuffled[j]] = [shuffled[j], shuffled[i]]
Swap(s, p, q) == [s EXCEPT ![p] = s[q], ![q] = s[p]]

\* A loop that ends at i > 1: the first two places are never swapped.
RECURSIVE shuffleLoopStopsEarly(_, _, _)
shuffleLoopStopsEarly(shuffled, i, indices) ==
    IF i > 1
    THEN LET j == indices[Len(shuffled) - i]
         IN  shuffleLoopStopsEarly(Swap(shuffled, i + 1, j + 1), i - 1, indices)
    ELSE shuffled

\* The loop of shuffleArray, i counting down from length-1 to 1 (0-based);
\* indices[k] is the j of the k-th pass.
RECURSIVE shuffleLoop(_, _, _)
shuffleLoop(shuffled, i, indices) ==
    IF i > 0
    THEN LET j == indices[Len(shuffled) - i]
         IN  shuffleLoop(Swap(shuffled, i + 1, j + 1), i - 1, indices)
    ELSE shuffled

\* The j of the passes over an array of n elements when draws[k] is the
\* level of the k-th call of Math.random.
RandomIndices(n, draws) ==
    [k \in 1 .. Max(n - 1, 0) |-> RandomIndex(draws[k], n - k)]

\* const shuffled = array: the loop would write into the caller's array.
SameArray(array) == [array |-> array, shuffled |-> array, aliased |-> TRUE]

\* const shuffled = [...array]: a new array with the elements of array.
SpreadCopy(array) == [array |-> array, shuffled |-> array, aliased |-> FALSE]

\* One call of shuffleArray whose passes draw `indices`: what it returns
\* and what the caller's array holds afterwards.
shuffleArrayCall(array, indices) ==
    LET arrays == SpreadCopy(array)
        shuffled == shuffleLoop(arrays.shuffled, Len(array) - 1, indices)
    IN  [returned |-> shuffled,
         array |-> IF arrays.aliased THEN shuffled ELSE arrays.array]

\* shuffleArray(array): a copy, shuffled by Fisher-Yates.
shuffleArray(array, draws) ==
    shuffleArrayCall(array, RandomIndices(Len(array), draws)).returned

NoCard == [id |-> <<>>, words |-> <<>>, gridSize |-> 0]
Threw(m) == [threw |-> TRUE, error |-> m, value |-> <<>>]
Returned(v) == [threw |-> FALSE, error |-> NoMsg, value |-> <<v>>]

\* generateSingleCard without its test of the pool's size: slice returns
\* what there is.
generateSingleCardUnchecked(availableWords, gridSize, cardId, draws) ==
    LET shuffled == IF Len(draws) >= Len(availableWords) - 1
                    THEN shuffleArray(availableWords, draws)
                    ELSE availableWords
        selectedWords == SubSeq(shuffled, 1,
                                Min(gridSize * gridSize, Len(shuffled)))
    IN  Returned([id |-> cardId, words |-> selectedWords, gridSize |-> gridSize])

\* generateSingleCard(availableWords, gridSize, cardId)
generateSingleCard(availableWords, gridSize, cardId, draws) ==
    LET cellsNeeded == gridSize * gridSize IN
    IF Len(availableWords) < cellsNeeded
    THEN Threw(Msg("Not enough unique words. Need _, have _",
                   cellsNeeded, Len(availableWords)))
    ELSE LET shuffled == shuffleArray(availableWords, draws)
             selectedWords == SubSeq(shuffled, 1, Min(cellsNeeded, Len(shuffled)))
         IN  Returned([id |-> cardId, words |-> selectedWords,
                       gridSize |-> gridSize])

\* Ids counted from 0.
CardIdFromZero(i) == <<"card-", i>>

\* `card-${i + 1}`
CardId(i) == <<"card-", i + 1>>

\* The words of the cards made so far.
UsedWords(cards) ==
    UNION {{cards[k].words[j] : j \in 1 .. Len(cards[k].words)} :
              k \in 1 .. Len(cards)}

\* A loop whose second branch draws from the words no earlier card holds.
RECURSIVE generateLoopWithoutRepetition(_, _, _, _, _)
generateLoopWithoutRepetition(words, config, i, cards, drawsOf) ==
    IF i < config.numCards
    THEN LET cardId == <<"card-", i + 1>>
             unused == SelectSeq(words, LAMBDA w : w \notin UsedWords(cards))
             card == IF config.allowRepetition
                     THEN generateSingleCard(words, config.gridSize, cardId,
                                             drawsOf[i + 1])
                     ELSE generateSingleCard(unused, config.gridSize, cardId,
                                             drawsOf[i + 1])
         IN  IF card.threw
             THEN [threw |-> TRUE, error |-> card.error, value |-> <<>>]
             ELSE generateLoopWithoutRepetition(words, config, i + 1,
                               Append(cards, card.value[1]), drawsOf)
    ELSE [threw |-> FALSE, error |-> NoMsg, value |-> cards]

\* The loop of generateBingoCards from card i on, cards being those pushed
\* so far; drawsOf[k + 1] holds the draws of card k's shuffle.  Both
\* branches of the allowRepetition test make the same call, and no pass
\* reads what an earlier pass pushed, so the passes are written side by
\* side: the first one to throw ends the loop with its error.
generateLoop(words, config, i, cards, drawsOf) ==
    LET passes == i .. config.numCards - 1
        made == [k \in passes |->
                    LET cardId == CardId(k) IN
                    IF config.allowRepetition
                    THEN generateSingleCard(words, config.gridSize, cardId,
                                            drawsOf[k + 1])
                    ELSE generateSingleCard(words, config.gridSize, cardId,
                                            drawsOf[k + 1])]
        thrown == {k \in passes : made[k].threw}
    IN  IF thrown # {}
        THEN [threw |-> TRUE,
              error |-> made[CHOOSE k \in thrown : \A j \in thrown : k <= j].error,
              value |-> <<>>]
        ELSE [threw |-> FALSE, error |-> NoMsg,
              value |-> cards \o [n \in 1 .. config.numCards - i |->
                                     made[i + n - 1].value[1]]]

\* availableWords as a call of generateSingleCard leaves it: the array is
\* handed to shuffleArray, and slice reads the shuffled copy.
availableWordsAfter(availableWords, gridSize, draws) ==
    IF Len(availableWords) < gridSize * gridSize
    THEN availableWords
    ELSE shuffleArrayCall(availableWords,
                          RandomIndices(Len(availableWords), draws)).array

\* words as the loop of generateBingoCards leaves it from card i on: every
\* pass hands the same array to generateSingleCard.
RECURSIVE wordsAfterLoop(_, _, _, _)
wordsAfterLoop(words, config, i, drawsOf) ==
    IF i < config.numCards
    THEN wordsAfterLoop(availableWordsAfter(words, config.gridSize,
                                            drawsOf[i + 1]),
                        config, i + 1, drawsOf)
    ELSE words

\* words as a call of generateBingoCards leaves it.
wordsAfter(words, config, drawsOf) ==
    IF Len(words) < config.gridSize * config.gridSize
    THEN words
    ELSE wordsAfterLoop(words, config, 0, drawsOf)

\* generateBingoCards(words, config); value is the batch itself.
generateBingoCards(words, config, drawsOf) ==
    LET cellsPerCard == config.gridSize * config.gridSize IN
    IF Len(words) < cellsPerCard
    THEN [threw |-> TRUE,
          error |-> Msg("Not enough unique words. Need at least _, have _",
                        cellsPerCard, Len(words)),
          value |-> <<>>]
    ELSE generateLoop(words, config, 0, <<>>, drawsOf)

\* The ratio dpi / 25.4 of convertSize as the fraction MmToPxNum / MmToPxDen.
MmToPxNum == 960
MmToPxDen == 254

\* Math.round(value * mmToPx).  No product value * 960 / 254 of an integer
\* lies on a half, so rounding half up is floor(x + 1/2).
RoundMmToPx(value) == (2 * value * MmToPxNum + MmToPxDen) \div (2 * MmToPxDen)

\* Math.floor in place of Math.round.
FloorPxToMm(value) == (value * MmToPxDen) \div MmToPxNum

\* Math.round(value / mmToPx).  The double 96 / 25.4 is a little above
\* 480 / 127, so a quotient that is exactly k + 1/2 over the rationals
\* (value = 240, 720, ...) is computed just below the half and rounds down:
\* the result is ceil(x - 1/2).  (Checked against IEEE doubles for every
\* value below 4000.)
RoundPxToMm(value) ==
    (2 * value * MmToPxDen + MmToPxNum - 1) \div (2 * MmToPxNum)

\* convertSize(value, from, to)
convertSize(value, from, to) ==
    IF from = to THEN value
    ELSE IF from = "mm" /\ to = "px" THEN RoundMmToPx(value)
    ELSE IF from = "px" /\ to = "mm" THEN RoundPxToMm(value)
    ELSE value

Presets == {"A4", "Letter", "Custom"}

\* Letter taken for 8.5 x 11 in rounded up: 216 x 280 mm.
getSizePresetDimensionsLongLetter(preset, unit) ==
    IF preset = "A4"
    THEN IF unit = "mm" THEN [width |-> 210, height |-> 297]
         ELSE [width |-> RoundMmToPx(210), height |-> RoundMmToPx(297)]
    ELSE IF preset = "Letter"
    THEN IF unit = "mm" THEN [width |-> 216, height |-> 280]
         ELSE [width |-> RoundMmToPx(216), height |-> RoundMmToPx(280)]
    ELSE [width |-> 600, height |-> 800]

\* getSizePresetDimensions(preset, unit)
getSizePresetDimensions(preset, unit) ==
    IF preset = "A4"
    THEN IF unit = "mm" THEN [width |-> 210, height |-> 297]
         ELSE [width |-> RoundMmToPx(210), height |-> RoundMmToPx(297)]
    ELSE IF preset = "Letter"
    THEN IF unit = "mm" THEN [width |-> 216, height |-> 279]
         ELSE [width |-> RoundMmToPx(216), height |-> RoundMmToPx(279)]
    ELSE [width |-> 600, height |-> 800]

\* The separators of input.split(/[,\n]+/).
Separators == {",", "\n"}

\* input.split(/[,\n]+/): a run of separators is one boundary; inSep says
\* the previous character was a separator.
RECURSIVE splitLoop(_, _, _, _)
splitLoop(rest, cur, out, inSep) ==
    IF rest = <<>> THEN Append(out, cur)
    ELSE IF Head(rest) \in Separators
         THEN IF inSep
              THEN splitLoop(Tail(rest), cur, out, TRUE)
              ELSE splitLoop(Tail(rest), <<>>, Append(out, cur), TRUE)
         ELSE splitLoop(Tail(rest), Append(cur, Head(rest)), out, FALSE)

split(input) == splitLoop(input, <<>>, <<>>, FALSE)

\* .map(word => word.trim()).filter(word => word.length > 0)
RECURSIVE trimAndFilter(_)
trimAndFilter(pieces) ==
    IF pieces = <<>> THEN <<>>
    ELSE LET word == trim(Head(pieces))
         IN  IF Len(word) > 0
             THEN <<word>> \o trimAndFilter(Tail(pieces))
             ELSE trimAndFilter(Tail(pieces))

\* The loop of processWords that keeps the first word of every lower-case form.
RECURSIVE uniqueLoop(_, _, _)
uniqueLoop(ws, seen, unique) ==
    IF ws = <<>> THEN unique
    ELSE LET lowerWord == toLowerCase(Head(ws))
         IN  IF lowerWord \notin seen
             THEN uniqueLoop(Tail(ws), seen \cup {lowerWord},
                             Append(unique, Head(ws)))
             ELSE uniqueLoop(Tail(ws), seen, unique)

\* processWords(input)
processWords(input) ==
    IF input = <<>> THEN <<>>
    ELSE uniqueLoop(trimAndFilter(split(input)), {}, <<>>)

\* The words of a pool written as one comma list, as a user would retype them.
RECURSIVE join(_)
join(ws) ==
    IF ws = <<>> THEN <<>>
    ELSE IF Len(ws) = 1 THEN Head(ws)
    ELSE Head(ws) \o <<",">> \o join(Tail(ws))

\* ------------------------------------------------------------- fileUtils.ts

\* ParsedFileData | null
Null == [isNull |-> TRUE, columns |-> <<>>, rows |-> <<>>, selectedColumn |-> 0]

\* `Column ${index + 1}`
ColumnName(index) == <<"Column ", index + 1>>

\* What parseCSVFile / parseXLSXFile settle with, given the rows the parsing
\* library read (raw, header row first) or its failure.
parseCSVFile(file) ==
    IF file.readFails
    THEN Threw(Msg("CSV parsing error: _", 0, 0))
    ELSE IF Len(file.raw) = 0
    THEN Threw(Msg("CSV file is empty", 0, 0))
    ELSE Returned([isNull |-> FALSE,
                   columns |-> [k \in 1 .. Len(file.raw[1]) |-> ColumnName(k - 1)],
                   rows |-> Tail(file.raw),
                   selectedColumn |-> 0])

parseXLSXFile(file) ==
    IF file.readFails
    THEN Threw(Msg("Failed to read file", 0, 0))
    ELSE IF Len(file.raw) = 0
    THEN Threw(Msg("XLSX file is empty", 0, 0))
    ELSE Returned([isNull |-> FALSE,
                   columns |-> [k \in 1 .. Len(file.raw[1]) |-> ColumnName(k - 1)],
                   rows |-> Tail(file.raw),
                   selectedColumn |-> 0])

\* A cell is a string, or a number as the spreadsheet reader returns it for
\* a numeric cell (sheet_to_json keeps raw values): NumberTag followed by
\* the number's decimal digits.  A cell that is missing reads as the empty
\* sequence, like the empty string.
NumberTag == "#number"
NumberCell(digits) == <<NumberTag>> \o digits
IsNumber(cell) == cell # <<>> /\ Head(cell) = NumberTag

\* String(cell)
String(cell) == IF IsNumber(cell) THEN Tail(cell) ELSE cell

\* !cell: undefined, the empty string and the number 0 are falsy.
Falsy(cell) == cell = <<>> \/ cell = NumberCell(<<"0">>)

\* The loop of extractWordsFromParsedData over the rows; columnIndex is
\* 0-based.  row[columnIndex] is undefined when the row is too short.
RECURSIVE extractLoop(_, _)
extractLoop(rows, columnIndex) ==
    IF rows = <<>> THEN <<>>
    ELSE LET row == Head(rows)
             rest == extractLoop(Tail(rows), columnIndex)
         IN  IF columnIndex + 1 <= Len(row) /\ ~Falsy(row[columnIndex + 1])
             THEN LET word == trim(String(row[columnIndex + 1]))
                  IN  IF Len(word) > 0 THEN <<word>> \o rest ELSE rest
             ELSE rest

\* extractWordsFromParsedData(data, columnIndex)
extractWordsFromParsedData(data, columnIndex) ==
    extractLoop(data.rows, columnIndex)

ValidTypes == {"text/csv", "application/vnd.ms-excel",
               "application/vnd.openxmlformats-officedocument.spreadsheetml.sheet"}

\* A test of the media type alone.
isValidMediaType(file) == file.type \in ValidTypes

\* isValidFileType(file); ext is the end of file.name from its last dot.
isValidFileType(file) ==
    \/ file.type \in ValidTypes
    \/ file.ext = ".csv"
    \/ file.ext = ".xlsx"
    \/ file.ext = ".xls"

\* ------------------------------------------------------------------ inputs

\* What the user may type into the textarea: nothing, two words, and nine
\* words with a repeated one, blanks and an empty piece.
TextTwo == <<"a", ",", "b">>
TextNine == <<"a", ",", " ", "A", ",", "b", ",", "c", ",", "d", "\n",
              "e", ",", "f", ",", "g", ",", "h", ",", ",", "i">>
Texts == {<<>>, TextTwo, TextNine}

\* The files the user may pick.  raw is what the parsing library reads from
\* the file (header row first), readFails whether it fails instead.
CsvWords ==
    [type |-> "text/csv", ext |-> ".csv", readFails |-> FALSE,
     raw |-> << << <<"W">>, <<"N">> >>,
                << <<" ", "a">>, <<"x">> >>,
                << <<"A">>, <<"y">> >>,
                << <<"c">>, <<>> >>,
                << <<"D">> >>, << <<"e">> >>, << <<"F">> >>,
                << <<"g">> >>, << <<"H">> >>, << <<"i">> >> >>]
CsvEmpty ==
    [type |-> "text/csv", ext |-> ".csv", readFails |-> FALSE, raw |-> <<>>]
XlsxBroken ==
    [type |-> "application/vnd.openxmlformats-officedocument.spreadsheetml.sheet",
     ext |-> ".xlsx", readFails |-> TRUE, raw |-> <<>>]
PngImage ==
    [type |-> "image/png", ext |-> ".png", readFails |-> FALSE, raw |-> <<>>]
\* An old spreadsheet the browser reports no media type for, and a text file
\* reported as CSV; neither can be read as a table.
XlsNoType ==
    [type |-> "", ext |-> ".xls", readFails |-> TRUE, raw |-> <<>>]
TxtAsCsv ==
    [type |-> "text/csv", ext |-> ".txt", readFails |-> FALSE, raw |-> <<>>]
Files == {CsvWords, CsvEmpty, XlsxBroken, PngImage, XlsNoType, TxtAsCsv}

\* A sheet of numbers for a number bingo: a header, then 7, 0, 12, an empty
\* row, a cell of blanks and the text " 7".
XlsxNumbers ==
    [type |-> "application/vnd.openxmlformats-officedocument.spreadsheetml.sheet",
     ext |-> ".xlsx", readFails |-> FALSE,
     raw |-> << << <<"N">> >>,
                << NumberCell(<<"7">>) >>,
                << NumberCell(<<"0">>) >>,
                << NumberCell(<<"1", "2">>) >>,
                << >>,
                << <<" ", " ">> >>,
                << <<" ", "7">> >> >>]
Tables == {CsvWords, XlsxNumbers}

\* What the number field may hold: nothing, a letter, 0, -5, 2, 2.7, 1e5
\* and 250; and where the slider may stop.
FieldTexts == {<<>>, <<"a">>, <<"0">>, <<"-", "5">>, <<"2">>, <<"2", ".", "7">>,
               <<"1", "e", "5">>, <<"2", "5", "0">>}
SliderStops == {1, 2, 99}

\* const gridSizes = [3, 4, 5, 6]
gridSizes == {3, 4, 5, 6}

\* Every sequence of n draws of Math.random, and the n-draw sequences that
\* stay on one level.
AllDraws(n) == [1 .. n -> 0 .. RandLevels - 1]
ConstDraws(n) == {[k \in 1 .. n |-> r] : r \in 0 .. RandLevels - 1}

\* ------------------------------------------------------------------- state

VARIABLES
    cardConfig,         \* Home: useState<CardConfig>
    words,              \* Home: the word pool
    wordInput,          \* Home: the textarea's text
    parsedFileData,     \* Home: ParsedFileData | null
    selectedFileColumn, \* Home: the chosen column, 0-based
    lastInput,          \* history: the user's most recent input action
    sizeConfig,         \* Home: useState<SizeConfig>
    generatedCards,     \* Home: the batch on display
    isGenerating,       \* Home
    error,              \* Home: the error message
    success,            \* Home: the success message
    currentStep,        \* Home
    parses,             \* file parses in flight, oldest first
    exports,            \* exports in flight, a bag of tasks
    ended,              \* the export that ended in the last step, if any:
                        \* how it ended and what it had offered for download
    call                \* the function call of the function-level harness

wordVars == <<words, wordInput, parsedFileData, selectedFileColumn, lastInput>>
configVars == <<cardConfig, sizeConfig>>
cardVars == <<generatedCards, isGenerating, currentStep>>
msgVars == <<error, success>>
exportVars == <<exports, ended>>
vars == <<wordVars, configVars, cardVars, msgVars, parses, exportVars, call>>

\* The user's input actions as the history keeps them: a text edit, the
\* upload of a file that went to a parser, a click on a column.
NoFile == [type |-> "", ext |-> "", readFails |-> FALSE, raw |-> <<>>]
NoInput == [kind |-> "none", file |-> NoFile]
TextEdit == [kind |-> "text", file |-> NoFile]
Upload(file) == [kind |-> "file", file |-> file]
ColumnClick == [kind |-> "column", file |-> NoFile]

NoExport == [kind |-> "none", found |-> 0, outcome |-> "none",
             items |-> <<>>, files |-> <<>>]
NoCall == [fn |-> "none", args |-> <<>>, result |-> <<>>]

\* The state of Home after its first render.
Init ==
    /\ cardConfig = [gridSize |-> 5, numCards |-> 1, allowRepetition |-> TRUE]
    /\ words = <<>>
    /\ wordInput = <<>>
    /\ lastInput = NoInput
    /\ parsedFileData = Null
    /\ selectedFileColumn = 0
    /\ sizeConfig = [preset |-> "A4", width |-> 600, height |-> 800, unit |-> "px"]
    /\ generatedCards = <<>>
    /\ isGenerating = FALSE
    /\ error = NoMsg
    /\ success = NoMsg
    /\ currentStep = "setup"
    /\ parses = <<>>
    /\ exports = EmptyBag
    /\ ended = NoExport
    /\ call = NoCall

\* const requiredWords / const hasEnoughWords of the current render.
requiredWords == calculateRequiredWords(cardConfig.gridSize, cardConfig.numCards)
hasEnoughWords ==
    isWordCountSufficient(Len(words), cardConfig.gridSize, cardConfig.numCards)

Remove(s, k) == [j \in 1 .. Len(s) - 1 |-> IF j < k THEN s[j] ELSE s[j + 1]]

\* --------------------------------------------------------------- Home: DOM

\* The elements carrying data-card-element, in document order: the live
\* preview of generatedCards[0] (right column), then one per card of the
\* "Generated Cards" grid, keyed by card.id.  None is rendered for no cards.
PreviewSlot == <<"preview", 0>>
CardElements(cards) ==
    IF Len(cards) > 0
    THEN <<PreviewSlot>> \o [k \in 1 .. Len(cards) |-> cards[k].id]
    ELSE <<>>

Mounted(cards) == {CardElements(cards)[k] : k \in 1 .. Len(CardElements(cards))}

\* The card the element in `slot` displays.
Shown(slot, cards) ==
    IF slot = PreviewSlot THEN cards[1]
    ELSE LET k == CHOOSE k \in 1 .. Len(cards) : cards[k].id = slot
         IN  cards[k]

\* How many of its elements an export has handed to html2canvas so far.
Handed(task) == IF task.phase = "raster" THEN task.i + 1 ELSE task.i

\* A re-render with newCards removes from the document every element whose
\* slot is gone; an export that still has to rasterize the element keeps the
\* removed node.
DetachIn(task, newCards) ==
    [task EXCEPT !.elements =
        [e \in 1 .. Len(task.elements) |->
            [slot |-> task.elements[e].slot,
             detached |-> \/ task.elements[e].detached
                          \/ /\ e > Handed(task)
                             /\ task.elements[e].slot \notin Mounted(newCards)]]]

RECURSIVE DetachAll(_, _, _)
DetachAll(tasks, bag, newCards) ==
    IF tasks = {} THEN EmptyBag
    ELSE LET task == CHOOSE t \in tasks : TRUE
         IN  [t \in {DetachIn(task, newCards)} |-> bag[task]]
             (+) DetachAll(tasks \ {task}, bag, newCards)

Detach(bag, newCards) == DetachAll(BagToSet(bag), bag, newCards)

\* A raster is known by the id of the card it shows; Blank is the raster of
\* a node that left the document.
Blank == <<"detached", 0>>
NoShot == <<"none", 0>>

\* --------------------------------------------------------- BingoCardPreview

\* containerWidth and containerHeight of BingoCardPreview, in hundredths of
\* a pixel: sizeConfig.unit === 'px' ? sizeConfig.width : sizeConfig.width
\* * 3.78, and the same for the height.
containerWidth(config) ==
    IF config.unit = "px" THEN 100 * config.width ELSE 378 * config.width
containerHeight(config) ==
    IF config.unit = "px" THEN 100 * config.height ELSE 378 * config.height

\* ------------------------------------------------------------ Home: config

\* onGridSizeChange(size): a click on one of the gridSizes buttons.
GridSizeChange(size) ==
    /\ cardConfig' = [cardConfig EXCEPT !.gridSize = size]
    /\ UNCHANGED <<sizeConfig, wordVars, cardVars, msgVars, parses, exports, call>>
    /\ ended' = NoExport

\* onNumCardsChange(num) as Home wires it: setCardConfig({ ...cardConfig,
\* numCards: num }).  The slider (min 1, max 100, whole steps) calls it with
\* parseInt of its value, which is the whole number the thumb stands on.
NumCardsChange(num) ==
    /\ cardConfig' = [cardConfig EXCEPT !.numCards = num]
    /\ UNCHANGED <<sizeConfig, wordVars, cardVars, msgVars, parses, exports, call>>
    /\ ended' = NoExport

Digits == {"0", "1", "2", "3", "4", "5", "6", "7", "8", "9"}
DigitValue(c) ==
    CASE c = "0" -> 0 [] c = "1" -> 1 [] c = "2" -> 2 [] c = "3" -> 3
      [] c = "4" -> 4 [] c = "5" -> 5 [] c = "6" -> 6 [] c = "7" -> 7
      [] c = "8" -> 8 [] c = "9" -> 9

\* The digits parseInt reads from the front of rest: the number so far and
\* whether any digit was read.
RECURSIVE digitsLoop(_, _, _)
digitsLoop(rest, value, any) ==
    IF rest # <<>> /\ Head(rest) \in Digits
    THEN digitsLoop(Tail(rest), 10 * value + DigitValue(Head(rest)), TRUE)
    ELSE [nan |-> ~any, value |-> value]

\* parseInt(text): white space, a sign, then digits up to the first other
\* character; NaN without a digit.
parseInt(text) ==
    LET body == trimStart(text)
        signed == body # <<>> /\ Head(body) \in {"-", "+"}
        read == digitsLoop(IF signed THEN Tail(body) ELSE body, 0, FALSE)
    IN  IF signed /\ Head(body) = "-"
        THEN [nan |-> read.nan, value |-> 0 - read.value]
        ELSE read

\* x || 1 for a number x: NaN and 0 are falsy.
OrOne(x) == IF x.nan \/ x.value = 0 THEN 1 ELSE x.value

\* The number field passing on what it parsed.
NumberFieldChangeUnclamped(text) == NumCardsChange(parseInt(text).value)

\* The number field's onChange: onNumCardsChange(Math.min(100, Math.max(1,
\* parseInt(e.target.value) || 1))).
NumberFieldChange(text) ==
    NumCardsChange(Min(100, Max(1, OrOne(parseInt(text)))))

\* ------------------------------------------------------------- Home: words

\* handleWordInputChange(input); the textarea exists while no file is loaded.
WordInputChange(input) ==
    /\ parsedFileData.isNull
    /\ wordInput' = input
    /\ words' = processWords(input)
    /\ parsedFileData' = Null
    /\ lastInput' = TextEdit
    /\ UNCHANGED <<selectedFileColumn, configVars, cardVars, msgVars, parses,
                   exports, call>>
    /\ ended' = NoExport

\* handleFileUpload(event) up to its await; the file input exists while no
\* file is loaded.
FileUpload(file) ==
    /\ parsedFileData.isNull
    /\ Len(parses) < MaxParses
    /\ IF ~isValidFileType(file)
       THEN /\ error' = Msg("Please upload a CSV or XLSX file", 0, 0)
            /\ UNCHANGED <<parses, lastInput>>
       ELSE /\ error' = NoMsg
            /\ parses' = Append(parses, file)
            /\ lastInput' = Upload(file)
    /\ UNCHANGED <<success, words, wordInput, parsedFileData,
                   selectedFileColumn, configVars, cardVars, exports, call>>
    /\ ended' = NoExport

\* handleFileUpload after its await: the parse of parses[k] settles.
ParseSettles(k) ==
    /\ k \in 1 .. Len(parses)
    /\ LET file == parses[k]
           fileData == IF file.ext = ".csv" THEN parseCSVFile(file)
                       ELSE parseXLSXFile(file)
       IN  IF fileData.threw
           THEN /\ error' = fileData.error
                /\ UNCHANGED <<success, wordVars>>
           ELSE LET extractedWords ==
                        extractWordsFromParsedData(fileData.value[1], 0)
                IN  /\ parsedFileData' = fileData.value[1]
                    /\ selectedFileColumn' = 0
                    /\ words' = extractedWords
                    /\ success' = Msg("Loaded _ words from file",
                                      Len(extractedWords), 0)
                    /\ UNCHANGED <<error, wordInput, lastInput>>
    /\ parses' = Remove(parses, k)
    /\ UNCHANGED <<configVars, cardVars, exports, call>>
    /\ ended' = NoExport

\* A column click that marks the column and leaves the words.
ColumnSelectionMarksOnly(columnIndex) ==
    /\ ~parsedFileData.isNull
    /\ columnIndex \in 0 .. Len(parsedFileData.columns) - 1
    /\ selectedFileColumn' = columnIndex
    /\ lastInput' = ColumnClick
    /\ UNCHANGED <<words, wordInput, parsedFileData, configVars, cardVars,
                   msgVars, parses, exports, call>>
    /\ ended' = NoExport

\* handleColumnSelection(columnIndex): a click on one of the column buttons.
ColumnSelection(columnIndex) ==
    /\ ~parsedFileData.isNull
    /\ columnIndex \in 0 .. Len(parsedFileData.columns) - 1
    /\ selectedFileColumn' = columnIndex
    /\ words' = extractWordsFromParsedData(parsedFileData, columnIndex)
    /\ lastInput' = ColumnClick
    /\ UNCHANGED <<wordInput, parsedFileData, configVars, cardVars, msgVars,
                   parses, exports, call>>
    /\ ended' = NoExport

\* ------------------------------------------------------------- Home: cards

\* A handler that adds the new batch to the cards held.
HandleGenerateCardsAppending(queued, drawsOf) ==
    LET cards == IF ~hasEnoughWords
                 THEN [threw |-> TRUE,
                       error |-> Msg("Need at least _ unique words, but you have _",
                                     requiredWords, Len(words)),
                       value |-> <<>>]
                 ELSE generateBingoCards(words, cardConfig, drawsOf)
    IN  /\ IF cards.threw
           THEN /\ error' = cards.error
                /\ success' = NoMsg
                /\ generatedCards' = queued
                /\ UNCHANGED currentStep
           ELSE /\ error' = NoMsg
                /\ success' = Msg("Generated _ bingo card(s) successfully!",
                                  Len(cards.value), 0)
                /\ generatedCards' = queued \o cards.value
                /\ currentStep' = "generate"
        /\ isGenerating' = FALSE
        /\ exports' = Detach(exports, generatedCards')
        /\ ended' = NoExport
        /\ UNCHANGED <<wordVars, configVars, parses, call>>

\* handleGenerateCards(), run after `queued` was queued for generatedCards
\* in the same event: the state it leaves once React has applied the batch.
HandleGenerateCards(queued, drawsOf) ==
    LET cards == IF ~hasEnoughWords
                 THEN [threw |-> TRUE,
                       error |-> Msg("Need at least _ unique words, but you have _",
                                     requiredWords, Len(words)),
                       value |-> <<>>]
                 ELSE generateBingoCards(words, cardConfig, drawsOf)
    IN  /\ IF cards.threw
           THEN /\ error' = cards.error
                /\ success' = NoMsg
                /\ generatedCards' = queued
                /\ UNCHANGED currentStep
           ELSE /\ error' = NoMsg
                /\ success' = Msg("Generated _ bingo card(s) successfully!",
                                  Len(cards.value), 0)
                /\ generatedCards' = cards.value
                /\ currentStep' = "generate"
        /\ isGenerating' = FALSE
        /\ exports' = Detach(exports, generatedCards')
        /\ ended' = NoExport
        /\ UNCHANGED <<wordVars, configVars, parses, call>>

\* The draws of one batch: every card's shuffle stays on a level of its own.
BatchDraws(levels) ==
    [1 .. cardConfig.numCards ->
        {[k \in 1 .. Max(Len(words) - 1, 0) |-> r] : r \in levels}]

\* A click on "Generate Bingo Cards", disabled without enough words.
GenerateCards(levels) ==
    /\ hasEnoughWords
    /\ ~isGenerating
    /\ \E drawsOf \in BatchDraws(levels) :
            HandleGenerateCards(generatedCards, drawsOf)

\* handleRegenerateCards(): the button is rendered while cards are shown.
RegenerateCards(levels) ==
    /\ Len(generatedCards) > 0
    /\ \E drawsOf \in BatchDraws(levels) : HandleGenerateCards(<<>>, drawsOf)

\* A filter that drops the first card, whatever its id.
filterOutFirst(cards, cardId) == IF cards = <<>> THEN <<>> ELSE Tail(cards)

\* generatedCards.filter(card => card.id !== cardId)
RECURSIVE filterOut(_, _)
filterOut(cards, cardId) ==
    IF cards = <<>> THEN <<>>
    ELSE IF Head(cards).id # cardId
         THEN <<Head(cards)>> \o filterOut(Tail(cards), cardId)
         ELSE filterOut(Tail(cards), cardId)

\* handleDeleteCard(cardId): the trash button of the k-th card of the grid.
DeleteCard(k) ==
    /\ k \in 1 .. Len(generatedCards)
    /\ generatedCards' = filterOut(generatedCards, generatedCards[k].id)
    /\ exports' = Detach(exports, generatedCards')
    /\ ended' = NoExport
    /\ UNCHANGED <<isGenerating, currentStep, wordVars, configVars,
                   msgVars, parses, call>>

\* ----------------------------------------------------------- Home: exports

\* An export in flight: the elements its handler took from the document, the
\* index i of the element html2canvas is working on, the await it is
\* suspended at (phase), the card html2canvas was handed (shot), the rasters it
\* has put into its document or archive so far (items) and the files it has
\* offered for download so far (files).
NewTask(kind, elements) ==
    [kind |-> kind,
     elements |-> [e \in 1 .. Len(elements) |->
                      [slot |-> elements[e], detached |-> FALSE]],
     i |-> 0, phase |-> "start", shot |-> NoShot, items |-> <<>>, files |-> <<>>]

\* `bingo-card-${i + 1}.png`
PngName(i) == <<"bingo-card-", i + 1, ".png">>

\* A file offered for download: its name and, in order, what it holds.
File(name, entries) == [name |-> name, entries |-> entries]
Entry(name, card) == [name |-> name, shows |-> card]

Layouts == {"one-per-page", "multiple-per-page"}

\* A page added before every fourth image, the first included.
StartsPageEveryFourth(layout, i) ==
    IF layout = "one-per-page" THEN i > 0 ELSE i % 4 = 0

\* Whether exportCardsToPDF calls pdf.addPage() before it places image i:
\* i > 0 in the one-per-page layout, cardIndex === 0 && i > 0 in the other.
StartsPage(layout, i) ==
    IF layout = "one-per-page" THEN i > 0 ELSE i % 4 = 0 /\ i > 0

\* The loop of exportCardsToPDF as far as pages go: pages counts the pages
\* of the document (new jsPDF() has one), and addImage draws on the last
\* one.  Of a placement only the page (0-based) and the cell of the 2x2
\* arrangement (col, row) are kept.
RECURSIVE layoutLoop(_, _, _, _, _)
layoutLoop(images, layout, i, pages, placed) ==
    IF i < Len(images)
    THEN LET cardIndex == i % 4
             now == IF StartsPage(layout, i) THEN pages + 1 ELSE pages
             at == IF layout = "one-per-page"
                   THEN [page |-> now - 1, col |-> 0, row |-> 0,
                         image |-> images[i + 1]]
                   ELSE [page |-> now - 1, col |-> cardIndex % 2,
                         row |-> cardIndex \div 2, image |-> images[i + 1]]
         IN  layoutLoop(images, layout, i + 1, now, Append(placed, at))
    ELSE [pages |-> pages, placed |-> placed]

\* The document exportCardsToPDF saves for the images and the layout.
pdfLayout(images, layout) == layoutLoop(images, layout, 0, 1, <<>>)

\* pdf.save('bingo-cards.pdf'): one page per image added, in order.
PdfFile(items) ==
    File(<<"bingo-cards", 0, ".pdf">>,
         [k \in 1 .. Len(items) |-> Entry(<<"page-", k, "">>, items[k])])

\* Entries named from 0.
ZipEntryNameFromZero(i) == <<"bingo-card-", i, ".png">>

\* The name exportCardsAsZIP gives entry i: `bingo-card-${i + 1}.png`.
ZipEntryName(i) == <<"bingo-card-", i + 1, ".png">>

\* The archive of exportCardsAsZIP: zip.file(`bingo-card-${i + 1}.png`, ...).
ZipFile(items) ==
    File(<<"bingo-cards", 0, ".zip">>,
         [k \in 1 .. Len(items) |-> Entry(ZipEntryName(k - 1), items[k])])

SuccessOf(kind) ==
    CASE kind = "pdf" -> Msg("PDF exported successfully!", 0, 0)
      [] kind = "png" -> Msg("PNG files exported successfully!", 0, 0)
      [] kind = "zip" -> Msg("ZIP file exported successfully!", 0, 0)

FailureOf(kind) ==
    CASE kind = "pdf" -> Msg("PDF export failed: _", 0, 0)
      [] kind = "png" -> Msg("PNG export failed: _", 0, 0)
      [] kind = "zip" -> Msg("ZIP export failed: _", 0, 0)

Outcome(task, outcome) ==
    [kind |-> task.kind, found |-> Len(task.elements), outcome |-> outcome,
     items |-> task.items, files |-> task.files]

One(task) == SetToBag({task})

\* An export ends in its handler's catch: setError(err.message).  rest is
\* the other exports in flight.
Fails(rest, task, msg) ==
    /\ error' = msg
    /\ ended' = Outcome(task, "error")
    /\ exports' = rest
    /\ UNCHANGED success

\* An export returns to its handler: setSuccess(...).
Completes(rest, task, err) ==
    /\ success' = SuccessOf(task.kind)
    /\ error' = err
    /\ ended' = Outcome(task, "ok")
    /\ exports' = rest

\* An export, in state task, reaches its loop's test with i = idx: it calls
\* html2canvas on the next element and suspends, or leaves the loop.  err is
\* the error message as the step found or set it.
Continues(rest, task, idx, err) ==
    IF idx < Len(task.elements)
    THEN /\ exports' = rest (+) One(
                [task EXCEPT !.i = idx, !.phase = "raster",
                             !.shot = IF task.elements[idx + 1].detached
                                      THEN Blank
                                      ELSE Shown(task.elements[idx + 1].slot,
                                                 generatedCards).id])
         /\ error' = err
         /\ ended' = NoExport
         /\ UNCHANGED success
    ELSE CASE task.kind = "pdf" ->
                Completes(rest, [task EXCEPT !.files = <<PdfFile(task.items)>>], err)
           [] task.kind = "png" ->
                Completes(rest, task, err)
           [] task.kind = "zip" ->
                /\ exports' = rest (+) One(
                        [task EXCEPT !.i = idx, !.phase = "pack", !.shot = NoShot])
                /\ error' = err
                /\ ended' = NoExport
                /\ UNCHANGED success

\* The handlers without their test of cardElements.length.
HandleExportUnchecked(kind, elements) ==
    /\ LET task == NewTask(kind, elements)
       IN  IF kind = "zip"
           THEN /\ exports' = exports (+) One([task EXCEPT !.phase = "import"])
                /\ error' = NoMsg
                /\ ended' = NoExport
                /\ UNCHANGED success
           ELSE Continues(exports, task, 0, NoMsg)
    /\ UNCHANGED <<wordVars, configVars, cardVars, parses, call>>

\* handleExportPDF / handleExportPNGs / handleExportZIP up to the first
\* await, with `elements` what querySelectorAll('[data-card-element]') found.
HandleExport(kind, elements) ==
    /\ IF Len(elements) = 0
       THEN /\ error' = Msg("No cards to export", 0, 0)
            /\ ended' = Outcome(NewTask(kind, elements), "error")
            /\ UNCHANGED <<success, exports>>
       ELSE LET task == NewTask(kind, elements)
            IN  IF kind = "zip"
                THEN /\ exports' = exports (+) One([task EXCEPT !.phase = "import"])
                     /\ error' = NoMsg
                     /\ ended' = NoExport
                     /\ UNCHANGED success
                ELSE Continues(exports, task, 0, NoMsg)
    /\ UNCHANGED <<wordVars, configVars, cardVars, parses, call>>

\* A click on a download button; the buttons are rendered while cards are
\* shown.
ExportClick(kind) ==
    /\ Len(generatedCards) > 0
    /\ BagCardinality(exports) < MaxExports
    /\ HandleExport(kind, CardElements(generatedCards))

\* await import('jszip') of an export settles.
ImportSettles(task, ok) ==
    /\ task.phase = "import"
    /\ IF ok
       THEN Continues(exports (-) One(task), task, 0, error)
       ELSE Fails(exports (-) One(task), task, FailureOf("zip"))
    /\ UNCHANGED <<wordVars, configVars, cardVars, parses, call>>

\* A loop that notes a failed rasterization and goes on to the next element.
RasterSettlesGoingOn(task, ok) ==
    /\ task.phase = "raster"
    /\ LET added == [task EXCEPT
                        !.items = Append(@, task.shot),
                        !.files = IF task.kind = "png"
                                  THEN Append(@, File(PngName(task.i),
                                         <<Entry(PngName(task.i), task.shot)>>))
                                  ELSE @]
       IN  IF ok
           THEN Continues(exports (-) One(task), added, task.i + 1, error)
           ELSE Continues(exports (-) One(task), task, task.i + 1,
                          FailureOf(task.kind))
    /\ UNCHANGED <<wordVars, configVars, cardVars, parses, call>>

\* await html2canvas(element) of an export settles, and canvas.toDataURL
\* returns or throws: the image is added to the document or archive, or
\* downloaded at once (exportCardToPNG), and the loop goes on.
RasterSettles(task, ok) ==
    /\ task.phase = "raster"
    /\ LET added == [task EXCEPT
                        !.items = Append(@, task.shot),
                        !.files = IF task.kind = "png"
                                  THEN Append(@, File(PngName(task.i),
                                         <<Entry(PngName(task.i), task.shot)>>))
                                  ELSE @]
       IN  IF ok
           THEN Continues(exports (-) One(task), added, task.i + 1, error)
           ELSE Fails(exports (-) One(task), task, FailureOf(task.kind))
    /\ UNCHANGED <<wordVars, configVars, cardVars, parses, call>>

\* await zip.generateAsync(...) of an export settles; the archive is offered.
PackSettles(task, ok) ==
    /\ task.phase = "pack"
    /\ IF ok
       THEN Completes(exports (-) One(task),
                      [task EXCEPT !.files = <<ZipFile(task.items)>>], error)
       ELSE Fails(exports (-) One(task), task, FailureOf("zip"))
    /\ UNCHANGED <<wordVars, configVars, cardVars, parses, call>>

\* One of the export handlers called in whatever state the page is in, cards
\* or no cards, once no export is under way.
ExportCall(kind) ==
    /\ exports = EmptyBag
    /\ HandleExport(kind, CardElements(generatedCards))

\* ------------------------------------------------- the library, called alone

\* Word pools of n words for the calls of the library: all different, and
\* different as strings but with "a" and "A" both present.
Letters == <<"a", "b", "c", "d", "e", "f", "g", "h", "i", "j", "k", "l">>
UniquePool(n) == [k \in 1 .. n |-> <<Letters[k]>>]
MixedPool(n) == [k \in 1 .. n |-> IF k = 2 THEN <<"A">> ELSE <<Letters[k]>>]
Pools == {UniquePool(n) : n \in 0 .. MaxPool} \cup {MixedPool(n) : n \in 2 .. MaxPool}
Units == {"px", "mm"}

\* The texts handed to processWords: every text of up to MaxText characters
\* made of two letters, one of them in both cases, a blank and the two
\* separators.
TextChars == {"a", "A", "b", " ", ",", "\n"}
HarnessTexts == UNION {[1 .. n -> TextChars] : n \in 0 .. MaxText}

\* The draws of Math.random one call of generateSingleCard can make: none
\* when it throws before shuffling, else one for each step of the shuffle.
DrawsOf(availableWords, gridSize) ==
    IF Len(availableWords) < gridSize * gridSize
    THEN {<<>>}
    ELSE AllDraws(Len(availableWords) - 1)

\* One call of generateSingleCard(availableWords, gridSize, 'card-1'); pool
\* is what the caller's array holds afterwards.
CallGenerateSingleCard(availableWords, gridSize, draws) ==
    /\ call = NoCall
    /\ call' = [fn |-> "generateSingleCard",
                args |-> <<availableWords, gridSize>>,
                result |-> generateSingleCard(availableWords, gridSize,
                                              CardId(0), draws),
                pool |-> availableWordsAfter(availableWords, gridSize, draws)]
    /\ UNCHANGED <<wordVars, configVars, cardVars, msgVars, parses, exportVars>>

\* One call of generateBingoCards(words, config); pool is what the caller's
\* array holds afterwards.
CallGenerateBingoCards(pool, config, drawsOf) ==
    /\ call = NoCall
    /\ call' = [fn |-> "generateBingoCards",
                args |-> <<pool, config>>,
                result |-> generateBingoCards(pool, config, drawsOf),
                pool |-> wordsAfter(pool, config, drawsOf)]
    /\ UNCHANGED <<wordVars, configVars, cardVars, msgVars, parses, exportVars>>

\* The arrays handed to shuffleArray: up to MaxShuffle different words, or
\* the same with the second a repeat of the first.
RepeatingPool(n) == [k \in 1 .. n |-> IF k = 2 THEN <<"a">> ELSE <<Letters[k]>>]
ShuffleArrays ==
    {UniquePool(n) : n \in 0 .. MaxShuffle}
        \cup {RepeatingPool(n) : n \in 2 .. MaxShuffle}

\* The j an array of n elements can make shuffleArray draw: the pass with
\* counter i computes Math.floor(Math.random() * (i + 1)), one of 0 .. i.
IndexDraws(n) ==
    {indices \in [1 .. Max(n - 1, 0) -> 0 .. Max(n - 1, 0)] :
        \A k \in 1 .. n - 1 : indices[k] <= n - k}

\* One call of shuffleArray(array) whose passes draw `indices`.
CallShuffleArray(array, indices) ==
    /\ call = NoCall
    /\ LET outcome == shuffleArrayCall(array, indices)
       IN  call' = [fn |-> "shuffleArray", args |-> <<array, indices>>,
                    result |-> outcome.returned, pool |-> outcome.array]
    /\ UNCHANGED <<wordVars, configVars, cardVars, msgVars, parses, exportVars>>

\* One call of convertSize(value, from, to).
CallConvertSize(value, from, to) ==
    /\ call = NoCall
    /\ call' = [fn |-> "convertSize", args |-> <<value, from, to>>,
                result |-> convertSize(value, from, to)]
    /\ UNCHANGED <<wordVars, configVars, cardVars, msgVars, parses, exportVars>>

\* convertSize(convertSize(value, from, to), to, from): the result of the
\* call before is converted back.
CallConvertBack ==
    /\ call.fn = "convertSize"
    /\ call' = [fn |-> "convertBack", args |-> call.args,
                result |-> convertSize(call.result, call.args[3], call.args[2])]
    /\ UNCHANGED <<wordVars, configVars, cardVars, msgVars, parses, exportVars>>

\* One call of isWordCountSufficient(wordCount, gridSize, numCards).
CallIsWordCountSufficient(wordCount, gridSize, numCards) ==
    /\ call = NoCall
    /\ call' = [fn |-> "isWordCountSufficient",
                args |-> <<wordCount, gridSize, numCards>>,
                result |-> isWordCountSufficient(wordCount, gridSize, numCards)]
    /\ UNCHANGED <<wordVars, configVars, cardVars, msgVars, parses, exportVars>>

\* One call of processWords(input).
CallProcessWords(input) ==
    /\ call = NoCall
    /\ call' = [fn |-> "processWords", args |-> <<input>>,
                result |-> processWords(input)]
    /\ UNCHANGED <<wordVars, configVars, cardVars, msgVars, parses, exportVars>>

\* processWords(processWords(input).join(',')): the list the call before
\* returned is written as a comma list and processed again.
CallProcessAgain ==
    /\ call.fn = "processWords"
    /\ call' = [fn |-> "processAgain", args |-> <<call.args[1], call.result>>,
                result |-> processWords(join(call.result))]
    /\ UNCHANGED <<wordVars, configVars, cardVars, msgVars, parses, exportVars>>

\* The pages of one call of exportCardsToPDF(cardElements, filename, layout)
\* on n elements, every rasterization succeeding; image k is that of the
\* k-th element, counted from 0.
CallExportCardsToPDF(n, layout) ==
    /\ call = NoCall
    /\ call' = [fn |-> "exportCardsToPDF", args |-> <<n, layout>>,
                result |-> pdfLayout([k \in 1 .. n |-> k - 1], layout)]
    /\ UNCHANGED <<wordVars, configVars, cardVars, msgVars, parses, exportVars>>

\* generateBingoCards called twice on the same words, gridSize and numCards,
\* with allowRepetition true and then false, Math.random drawing the same
\* both times.
CallGenerateBothWays(pool, gridSize, numCards, drawsOf) ==
    /\ call = NoCall
    /\ call' = [fn |-> "generateBothWays",
                args |-> <<pool, gridSize, numCards, drawsOf>>,
                result |-> [allowRepetition \in BOOLEAN |->
                              generateBingoCards(pool,
                                  [gridSize |-> gridSize, numCards |-> numCards,
                                   allowRepetition |-> allowRepetition],
                                  drawsOf)]]
    /\ UNCHANGED <<wordVars, configVars, cardVars, msgVars, parses, exportVars>>

\* One call of getSizePresetDimensions(preset, unit).
CallGetSizePresetDimensions(preset, unit) ==
    /\ call = NoCall
    /\ call' = [fn |-> "getSizePresetDimensions", args |-> <<preset, unit>>,
                result |-> getSizePresetDimensions(preset, unit)]
    /\ UNCHANGED <<wordVars, configVars, cardVars, msgVars, parses, exportVars>>

\* extractWordsFromParsedData(data, columnIndex) called on the table the
\* parser made of a file.
CallExtractWords(file, columnIndex) ==
    /\ call = NoCall
    /\ LET parsed == IF file.ext = ".csv" THEN parseCSVFile(file)
                     ELSE parseXLSXFile(file)
       IN  /\ ~parsed.threw
           /\ call' = [fn |-> "extractWordsFromParsedData",
                       args |-> <<file.raw, columnIndex>>,
                       result |-> extractWordsFromParsedData(parsed.value[1],
                                                             columnIndex)]
    /\ UNCHANGED <<wordVars, configVars, cardVars, msgVars, parses, exportVars>>

\* The caller drops the result.
CallReturns ==
    /\ call # NoCall
    /\ call' = NoCall
    /\ UNCHANGED <<wordVars, configVars, cardVars, msgVars, parses, exportVars>>

\* ------------------------------------------------------- the application

ExportKinds == {"pdf", "png", "zip"}

\* The user sets up the cards.
ConfigStep ==
    \/ \E size \in gridSizes : GridSizeChange(size)
    \/ \E num \in 1 .. MaxCards : NumCardsChange(num)

\* The user enters words, by hand or from a file.
WordStep ==
    \/ \E input \in Texts : WordInputChange(input)
    \/ \E file \in Files : FileUpload(file)
    \/ \E k \in 1 .. MaxParses : ParseSettles(k)
    \/ \E columnIndex \in 0 .. 1 : ColumnSelection(columnIndex)

\* The user generates, regenerates and deletes cards.
CardStep(levels) ==
    \/ GenerateCards(levels)
    \/ RegenerateCards(levels)
    \/ \E k \in 1 .. MaxCards : DeleteCard(k)

\* The user starts an export, or an await of an export in flight settles.
ExportStep ==
    \/ \E kind \in ExportKinds : ExportClick(kind)
    \/ \E task \in BagToSet(exports), ok \in BOOLEAN : ImportSettles(task, ok)
    \/ \E task \in BagToSet(exports), ok \in BOOLEAN : RasterSettles(task, ok)
    \/ \E task \in BagToSet(exports), ok \in BOOLEAN : PackSettles(task, ok)

\* The word pool and the cards: every way of entering words, every
\* configuration, generation and deletion.
Next == ConfigStep \/ WordStep \/ CardStep(0 .. RandLevels - 1)

Spec == Init /\ [][Next]_vars

\* The cards and their export: the pool is the nine typed words, every
\* shuffle draws its lowest level (an export never reads a card's words), and
\* up to MaxExports exports run while the user goes on generating and deleting.
ExportNext ==
    \/ GridSizeChange(3)
    \/ \E num \in 1 .. MaxCards : NumCardsChange(num)
    \/ WordInputChange(TextNine)
    \/ CardStep({0})
    \/ ExportStep

ExportSpec == Init /\ [][ExportNext]_vars

\* The export handlers called directly, one export at a time, on a page
\* that shows one card or none.
HandlerNext ==
    \/ GridSizeChange(3)
    \/ \E input \in Texts : WordInputChange(input)
    \/ CardStep({0})
    \/ \E kind \in ExportKinds : ExportCall(kind)
    \/ \E task \in BagToSet(exports), ok \in BOOLEAN : ImportSettles(task, ok)
    \/ \E task \in BagToSet(exports), ok \in BOOLEAN : RasterSettles(task, ok)
    \/ \E task \in BagToSet(exports), ok \in BOOLEAN : PackSettles(task, ok)

HandlerSpec == Init /\ [][HandlerNext]_vars

\* The same, with every await of an export settling in the end: the promise
\* of import('jszip'), of html2canvas and of zip.generateAsync is resolved or
\* rejected some time after it was made.
HandlerFairSpec ==
    /\ Init /\ [][HandlerNext]_vars
    /\ WF_vars(\E task \in BagToSet(exports), ok \in BOOLEAN :
                    ImportSettles(task, ok))
    /\ WF_vars(\E task \in BagToSet(exports), ok \in BOOLEAN :
                    RasterSettles(task, ok))
    /\ WF_vars(\E task \in BagToSet(exports), ok \in BOOLEAN :
                    PackSettles(task, ok))

\* The settings and generation: grid-size clicks, slider moves and edits of
\* the number field in any order, nine words typed, and batches generated
\* with every shuffle on its lowest level.
SettingsNext ==
    \/ \E size \in gridSizes : GridSizeChange(size)
    \/ \E num \in SliderStops : NumCardsChange(num)
    \/ \E text \in FieldTexts : NumberFieldChange(text)
    \/ WordInputChange(TextNine)
    \/ GenerateCards({0})
    \/ RegenerateCards({0})

SettingsSpec == Init /\ [][SettingsNext]_vars

\* The cards alone: the configuration is set, words are typed, and cards
\* are generated, regenerated and deleted with every outcome of the draws.
CardsNext ==
    \/ ConfigStep
    \/ \E input \in Texts : WordInputChange(input)
    \/ CardStep(0 .. RandLevels - 1)

CardsSpec == Init /\ [][CardsNext]_vars

\* The page before any card is generated: the configuration is set, words
\* are typed, files uploaded and parsed, columns chosen.
UploadNext == ConfigStep \/ WordStep

UploadSpec == Init /\ [][UploadNext]_vars

\* The library functions called one at a time, each on every input within
\* the bounds and with every outcome of its random draws.
FnNext ==
    \/ /\ call = NoCall
       /\ \E array \in ShuffleArrays :
            \E indices \in IndexDraws(Len(array)) :
               CallShuffleArray(array, indices)
    \/ /\ call = NoCall
       /\ \E availableWords \in Pools, gridSize \in gridSizes :
            \E draws \in DrawsOf(availableWords, gridSize) :
               CallGenerateSingleCard(availableWords, gridSize, draws)
    \/ /\ call = NoCall
       /\ \E pool \in Pools, gridSize \in gridSizes,
             numCards \in 0 .. MaxCards, allowRepetition \in BOOLEAN :
            \E drawsOf \in [1 .. numCards -> ConstDraws(Max(Len(pool) - 1, 0))] :
               CallGenerateBingoCards(pool,
                   [gridSize |-> gridSize, numCards |-> numCards,
                    allowRepetition |-> allowRepetition], drawsOf)
    \/ /\ call = NoCall
       /\ \E value \in 0 .. MaxPx, from \in Units, to \in Units :
               CallConvertSize(value, from, to)
    \/ /\ call = NoCall
       /\ \E wordCount \in 0 .. MaxWordCount, gridSize \in gridSizes,
             numCards \in 0 .. MaxCards :
               CallIsWordCountSufficient(wordCount, gridSize, numCards)
    \/ /\ call = NoCall
       /\ \E input \in HarnessTexts : CallProcessWords(input)
    \/ /\ call = NoCall
       /\ \E n \in 0 .. MaxImages, layout \in Layouts :
               CallExportCardsToPDF(n, layout)
    \/ /\ call = NoCall
       /\ \E pool \in Pools, gridSize \in gridSizes, numCards \in 0 .. MaxCards :
            \E drawsOf \in [1 .. numCards -> ConstDraws(Max(Len(pool) - 1, 0))] :
               CallGenerateBothWays(pool, gridSize, numCards, drawsOf)
    \/ /\ call = NoCall
       /\ \E preset \in Presets, unit \in Units :
               CallGetSizePresetDimensions(preset, unit)
    \/ /\ call = NoCall
       /\ \E file \in Tables, columnIndex \in 0 .. 1 :
               CallExtractWords(file, columnIndex)
    \/ CallProcessAgain
    \/ CallConvertBack
    \/ CallReturns

FnSpec == Init /\ [][FnNext]_vars

\* ---------------------------------------------------------------- properties

Abs(x) == IF x < 0 THEN 0 - x ELSE x

\* No two entries of ws are equal once lower-cased.
CaseFree(ws) ==
    \A p, q \in 1 .. Len(ws) : p # q => toLowerCase(ws[p]) # toLowerCase(ws[q])

Elements(ws) == {ws[k] : k \in 1 .. Len(ws)}

\* C1: generateSingleCard, called on a pool without case-insensitive
\* duplicates that holds at least gridSize * gridSize words, returns a card
\* of exactly gridSize * gridSize words, pairwise different case-insensitively
\* and all taken from the pool, whatever Math.random draws.
SingleCardIsDistinctSelection ==
    (/\ call.fn = "generateSingleCard"
     /\ CaseFree(call.args[1])
     /\ Len(call.args[1]) >= call.args[2] * call.args[2])
    => /\ ~call.result.threw
       /\ LET card == call.result.value[1]
          IN  /\ Len(card.words) = call.args[2] * call.args[2]
              /\ CaseFree(card.words)
              /\ Elements(card.words) \subseteq Elements(call.args[1])

\* A card of nine words drawn from the ten-word pool in an order other than
\* the pool's.
SingleCardShuffled ==
    /\ call.fn = "generateSingleCard"
    /\ call.args = <<UniquePool(MaxPool), 3>>
    /\ ~call.result.threw
    /\ Len(call.result.value[1].words) = 9
    /\ call.result.value[1].words # SubSeq(UniquePool(MaxPool), 1, 9)

\* The grid size a call of the generation functions was given.
CalledGridSize ==
    IF call.fn = "generateSingleCard" THEN call.args[2] ELSE call.args[2].gridSize

\* C3: on a pool of fewer than gridSize * gridSize words generateSingleCard
\* and generateBingoCards throw and return nothing, neither a card with
\* fewer words nor a shorter batch, whatever numCards is.
SmallPoolIsRefused ==
    (/\ call.fn \in {"generateSingleCard", "generateBingoCards"}
     /\ Len(call.args[1]) < CalledGridSize * CalledGridSize)
    => /\ call.result.threw
       /\ call.result.value = <<>>
       /\ call.result.error.a = CalledGridSize * CalledGridSize
       /\ call.result.error.b = Len(call.args[1])

\* generateBingoCards refused a batch of two cards on eight words.
SmallPoolBatchRefused ==
    /\ call.fn = "generateBingoCards"
    /\ Len(call.args[1]) = 8
    /\ call.args[2].gridSize = 3
    /\ call.args[2].numCards = 2
    /\ call.result.threw

\* C8: a whole number of pixels converted to mm and back to px by
\* convertSize comes back at most 2 away from where it started.
RoundTripWithinTwo ==
    (call.fn = "convertBack" /\ call.args[2] = "px" /\ call.args[3] = "mm")
    => Abs(call.result - call.args[1]) <= 2

\* C8 as stated: the round trip px -> mm -> px moves a value by at most 1.
RoundTripWithinOne ==
    (call.fn = "convertBack" /\ call.args[2] = "px" /\ call.args[3] = "mm")
    => Abs(call.result - call.args[1]) <= 1

\* 2 px are 1 mm, and 1 mm is 4 px.
RoundTripOfTwoIsFour ==
    /\ call.fn = "convertBack"
    /\ call.args = <<2, "px", "mm">>
    /\ call.result = 4

\* C2: whatever the user typed, uploaded, selected, generated, regenerated
\* or deleted, no card on display holds two words that are equal once
\* lower-cased.
CardsAreCaseFree ==
    \A k \in 1 .. Len(generatedCards) : CaseFree(generatedCards[k].words)

\* A click on Regenerate that handleGenerateCards refuses for want of words.
RegenerateRefused == ~hasEnoughWords /\ RegenerateCards(0 .. RandLevels - 1)

\* A step in which an operation of the user fails: a new error message is
\* displayed.
OperationFails == error' # NoMsg /\ error' # error

\* C6: a step in which a user operation fails changes neither the word pool
\* nor the cards generated before.
FailureKeepsPoolAndCards ==
    [][OperationFails => UNCHANGED <<words, generatedCards>>]_vars

\* C7: when generation is refused for want of words, the error displayed
\* gives gridSize * gridSize as the number needed and the pool's size as the
\* number at hand, whatever numCards is.
RefusalReportsOneCardsNeed ==
    [][RegenerateRefused =>
          /\ error'.a = cardConfig.gridSize * cardConfig.gridSize
          /\ error'.b = Len(words)]_vars

\* The ids of the cards on display, in order.
CardIds == [k \in 1 .. Len(generatedCards) |-> generatedCards[k].id]

\* C4: an export that completes has emitted one item for each generated
\* card, in the cards' order: the k-th item shows the k-th card, no card
\* appears twice and there is no further item.
ExportEmitsEachCardOnce ==
    ended.outcome = "ok" => ended.items = CardIds

\* C5: an export that ends in an error has saved or offered no file, not
\* even for the cards it processed before the failure.
FailedExportOffersNothing ==
    ended.outcome = "error" => ended.files = <<>>

\* The exports that wait for html2canvas.
Rasterizing ==
    [task \in {t \in BagToSet(exports) : t.phase = "raster"} |-> exports[task]]

\* C9: at most one rasterization is in flight in any state, also when a
\* second export is started while one is running.
OneRasterizationAtATime == BagCardinality(Rasterizing) <= 1

\* C10: an export handler called while no element carries data-card-element
\* ends at once in an error and offers no file, for PDF, PNG and ZIP alike;
\* no export gets under way with nothing to export.
EmptyExportIsRefused ==
    /\ (ended.kind # "none" /\ ended.found = 0)
          => (ended.outcome = "error" /\ ended.files = <<>>)
    /\ \A task \in BagToSet(exports) : Len(task.elements) > 0

\* The ZIP handler has just refused to export nothing.
EmptyZipExportRefused ==
    /\ ended.kind = "zip"
    /\ ended.found = 0
    /\ ended.outcome = "error"
    /\ error = Msg("No cards to export", 0, 0)
    /\ generatedCards = <<>>

\* C11: on a pool of at least gridSize * gridSize words generateBingoCards
\* returns exactly config.numCards cards of gridSize * gridSize words each,
\* with the ids card-1, card-2, ... in that order, so no id occurs twice.
BatchIsNumberedFromOne ==
    (/\ call.fn = "generateBingoCards"
     /\ Len(call.args[1]) >= call.args[2].gridSize * call.args[2].gridSize)
    => /\ ~call.result.threw
       /\ Len(call.result.value) = call.args[2].numCards
       /\ \A k \in 1 .. Len(call.result.value) :
            /\ call.result.value[k].id = <<"card-", k>>
            /\ call.result.value[k].gridSize = call.args[2].gridSize
            /\ Len(call.result.value[k].words)
                 = call.args[2].gridSize * call.args[2].gridSize
       /\ \A j, k \in 1 .. Len(call.result.value) :
            j # k => call.result.value[j].id # call.result.value[k].id

\* A batch of two cards of nine words each made from exactly nine words.
BatchOfTwoFromNine ==
    /\ call.fn = "generateBingoCards"
    /\ call.args[1] = UniquePool(9)
    /\ call.args[2].gridSize = 3
    /\ call.args[2].numCards = 2
    /\ ~call.result.threw
    /\ Len(call.result.value) = 2
    /\ call.result.value[1].words # call.result.value[2].words

\* C12: isWordCountSufficient(n, g, numCards) is true exactly when
\* n >= g * g; numCards has no part in the result.
SufficientIffOneCardFits ==
    call.fn = "isWordCountSufficient"
    => (call.result <=> call.args[1] >= call.args[2] * call.args[2])

\* Nine words are found sufficient for two cards of grid size 3.
NineSufficeForTwoCards ==
    /\ call.fn = "isWordCountSufficient"
    /\ call.args = <<9, 3, 2>>
    /\ call.result = TRUE

\* C13: processWords is idempotent: the words it returns, joined by commas
\* and processed again, come back as the same list.
ProcessWordsIsIdempotent ==
    call.fn = "processAgain" => call.result = call.args[2]

\* "A,a\nb" gave A and b, and A and b processed again gave A and b.
ProcessedTwice ==
    /\ call.fn = "processAgain"
    /\ call.args[1] = <<"A", ",", "a", "\n", "b">>
    /\ call.result = << <<"A">>, <<"b">> >>

\* The elements of a set of numbers in increasing order.
Ascending(S) ==
    [k \in 1 .. Cardinality(S) |->
        CHOOSE x \in S : Cardinality({y \in S : y < x}) = k - 1]

\* Where the maximal separator-free stretches of a text begin, and where the
\* stretch beginning at s ends.
StretchStarts(text) ==
    {s \in 1 .. Len(text) :
        /\ text[s] \notin Separators
        /\ s = 1 \/ text[s - 1] \in Separators}
StretchEnd(text, s) ==
    CHOOSE e \in s .. Len(text) :
        /\ \A k \in s .. e : text[k] \notin Separators
        /\ e = Len(text) \/ text[e + 1] \in Separators

\* The stretch of text from s to e without the white space at its ends;
\* empty if it is all white space.
Core(text, s, e) ==
    LET inked == {k \in s .. e : text[k] \notin WhiteSpace}
    IN  IF inked = {} THEN <<>>
        ELSE SubSeq(text, CHOOSE k \in inked : \A j \in inked : k <= j,
                          CHOOSE k \in inked : \A j \in inked : j <= k)

\* The candidates of a text: the cores of its stretches, those that are not
\* empty, in the order of the text.
Candidates(text) ==
    LET starts == Ascending({s \in StretchStarts(text) :
                                Core(text, s, StretchEnd(text, s)) # <<>>})
    IN  [k \in 1 .. Len(starts) |-> Core(text, starts[k], StretchEnd(text, starts[k]))]

\* Two words that differ in the case of their letters at most.
SameFold(u, v) ==
    /\ Len(u) = Len(v)
    /\ \A i \in 1 .. Len(u) : LowerChar(u[i]) = LowerChar(v[i])

\* The first of every class of SameFold among the words ws, in order.
FirstOfEachClass(ws) ==
    LET firsts == Ascending({k \in 1 .. Len(ws) :
                                \A j \in 1 .. k - 1 : ~SameFold(ws[j], ws[k])})
    IN  [k \in 1 .. Len(firsts) |-> ws[firsts[k]]]

\* C14: processWords returns the trimmed, non-empty pieces between runs of
\* commas and newlines, one for each class of words equal up to case: the
\* first of the class, in its own casing, in the order of first appearance.
ProcessWordsKeepsFirstOfClass ==
    call.fn = "processWords"
    => call.result = FirstOfEachClass(Candidates(call.args[1]))

\* "a,\n A" is the one word a.
SecondCasingDropped ==
    /\ call.fn = "processWords"
    /\ call.args[1] = <<"a", ",", "\n", " ", "A">>
    /\ call.result = << <<"a">> >>

\* C15: in the multiple-per-page layout card i of n (from 0) is placed on
\* page i div 4 in cell i mod 4 of the 2x2 arrangement, in the original
\* order; for n >= 1 the document has ceil(n / 4) pages, and every page but
\* the last holds four cards.
FourCardsPerPage ==
    (/\ call.fn = "exportCardsToPDF"
     /\ call.args[2] = "multiple-per-page"
     /\ call.args[1] >= 1)
    => LET n == call.args[1]
           doc == call.result
       IN  /\ doc.pages = (n + 3) \div 4
           /\ Len(doc.placed) = n
           /\ \A i \in 0 .. n - 1 :
                /\ doc.placed[i + 1].image = i
                /\ doc.placed[i + 1].page = i \div 4
                /\ 2 * doc.placed[i + 1].row + doc.placed[i + 1].col = i % 4
                /\ doc.placed[i + 1].col \in {0, 1}
                /\ doc.placed[i + 1].row \in {0, 1}
           /\ \A p \in 0 .. doc.pages - 2 :
                Cardinality({i \in 1 .. n : doc.placed[i].page = p}) = 4

\* Five cards: two pages, the fifth card alone in the first cell of the
\* second.
FiveCardsOnTwoPages ==
    /\ call.fn = "exportCardsToPDF"
    /\ call.args = <<5, "multiple-per-page">>
    /\ call.result.pages = 2
    /\ call.result.placed[5] = [page |-> 1, col |-> 0, row |-> 0, image |-> 4]

SheetMm(preset) ==
    IF preset = "A4" THEN [width |-> 210, height |-> 297]
                     ELSE [width |-> 216, height |-> 279]

\* C17: getSizePresetDimensions gives 210 x 297 for A4 and 216 x 279 for
\* Letter in mm, in px what convertSize makes of these widths and heights
\* (794 x 1123 and 816 x 1054 at 96 DPI), and 600 x 800 for Custom in
\* either unit.
PresetsResolve ==
    call.fn = "getSizePresetDimensions"
    => LET preset == call.args[1]
           unit == call.args[2]
       IN  /\ preset = "Custom" => call.result = [width |-> 600, height |-> 800]
           /\ (preset # "Custom" /\ unit = "mm") => call.result = SheetMm(preset)
           /\ (preset # "Custom" /\ unit = "px") =>
                /\ call.result.width = convertSize(SheetMm(preset).width, "mm", "px")
                /\ call.result.height = convertSize(SheetMm(preset).height, "mm", "px")
           /\ (preset = "A4" /\ unit = "px") =>
                call.result = [width |-> 794, height |-> 1123]
           /\ (preset = "Letter" /\ unit = "px") =>
                call.result = [width |-> 816, height |-> 1054]

\* Letter resolved in pixels.
LetterInPixels ==
    /\ call.fn = "getSizePresetDimensions"
    /\ call.args = <<"Letter", "px">>
    /\ call.result = [width |-> 816, height |-> 1054]

\* A file of an allowed media type or with an allowed end of its name.
Accepted(file) ==
    \/ file.type \in {"text/csv", "application/vnd.ms-excel",
          "application/vnd.openxmlformats-officedocument.spreadsheetml.sheet"}
    \/ file.ext \in {".csv", ".xlsx", ".xls"}

\* C18: an uploaded file goes to a parser exactly when its media type is
\* allowed or its name ends in .csv, .xlsx or .xls; no other file ever
\* reaches a parser, and the upload of a file that is turned away changes
\* neither the word pool nor the parsed table.
UploadAcceptsByTypeOrName ==
    [][/\ Len(parses') > Len(parses) => Accepted(parses'[Len(parses')])
       /\ \A file \in Files :
            FileUpload(file) =>
               IF Accepted(file)
               THEN parses' = Append(parses, file) /\ error' = NoMsg
               ELSE /\ parses' = parses
                    /\ error' = Msg("Please upload a CSV or XLSX file", 0, 0)
                    /\ UNCHANGED <<words, parsedFileData>>]_vars

\* A file was turned away while two words were in the pool.
UploadTurnedAway ==
    /\ error = Msg("Please upload a CSV or XLSX file", 0, 0)
    /\ words = << <<"a">>, <<"b">> >>
    /\ parsedFileData = Null
    /\ parses = <<>>

\* What a cell reads as: a string as itself, a number as its digits.
Written(cell) ==
    IF cell # <<>> /\ Head(cell) = "#number" THEN Tail(cell) ELSE cell

\* The entry a row of a table gives at column c (from 0): the cell as
\* written, without the white space at its ends; empty if the row has no
\* such cell.
EntryAt(row, c) ==
    IF c + 1 <= Len(row)
    THEN Core(Written(row[c + 1]), 1, Len(Written(row[c + 1])))
    ELSE <<>>

\* C19: extractWordsFromParsedData returns, in the order of the rows, the
\* trimmed cell at the column of every data row whose cell is there and not
\* empty once trimmed, and nothing else: duplicates stay, and the header row
\* gives nothing.
ExtractKeepsEveryFilledCell ==
    call.fn = "extractWordsFromParsedData"
    => LET raw == call.args[1]
           c == call.args[2]
           filled == Ascending({k \in 2 .. Len(raw) : EntryAt(raw[k], c) # <<>>})
       IN  call.result = [k \in 1 .. Len(filled) |-> EntryAt(raw[filled[k]], c)]

\* C20: whenever generation is attempted, gridSize is 3, 4, 5 or 6 and
\* numCards is a whole number from 1 to 100, whatever was clicked, slid or
\* typed into the number field before; the configuration is in these bounds
\* in every state, and no batch is longer than 100.
ConfigStaysInBounds ==
    /\ cardConfig.gridSize \in {3, 4, 5, 6}
    /\ cardConfig.numCards \in 1 .. 100
    /\ Len(generatedCards) <= 100

\* The number field's 250 became 100, and a batch of 100 cards was made.
HundredCardsGenerated ==
    /\ cardConfig.numCards = 100
    /\ Len(generatedCards) = 100
    /\ success = Msg("Generated _ bingo card(s) successfully!", 100, 0)

\* The names an export has given its images so far: those of the files a
\* PNG export has offered, those of the entries of a ZIP export's archive.
ImageNames(export) ==
    IF export.kind = "png"
    THEN [k \in 1 .. Len(export.files) |-> export.files[k].name]
    ELSE IF export.kind = "zip" /\ export.files # <<>>
    THEN [k \in 1 .. Len(export.files[1].entries) |->
             export.files[1].entries[k].name]
    ELSE <<>>

\* The exports under way and the one that has just ended.
ExportsSeen == BagToSet(exports) \cup {ended}

\* C21: the PNG export and the ZIP export name their images by one sequence
\* counted from 1: the i-th download of a PNG export and the i-th entry of a
\* ZIP archive are both bingo-card-i.png, so the two agree name by name, and
\* the names of one export are pairwise different.
ExportsNameImagesAlike ==
    \A export \in ExportsSeen :
        LET names == ImageNames(export) IN
        /\ \A i \in 1 .. Len(names) : names[i] = <<"bingo-card-", i, ".png">>
        /\ \A i, j \in 1 .. Len(names) : names[i] = names[j] => i = j

\* A ZIP export has just ended well with an archive of two entries,
\* bingo-card-1.png and bingo-card-2.png.
ZipOfTwoEntriesOffered ==
    /\ ended.kind = "zip"
    /\ ended.outcome = "ok"
    /\ Len(ImageNames(ended)) = 2
    /\ ImageNames(ended)[2] = <<"bingo-card-", 2, ".png">>

\* C22: generateSingleCard, generateBingoCards and shuffleArray leave the
\* array they are given as it was, the same words in the same order, whether
\* they return or throw.
PoolIsLeftAsGiven ==
    call.fn \in {"generateSingleCard", "generateBingoCards", "shuffleArray"}
        => call.pool = call.args[1]

\* generateBingoCards has returned two cards whose words come in another
\* order than the pool's, and the pool is as it was.
BatchShuffledBesidePool ==
    /\ call.fn = "generateBingoCards"
    /\ ~call.result.threw
    /\ Len(call.result.value) = 2
    /\ call.result.value[2].words # SubSeq(call.args[1], 1, 9)
    /\ call.pool = call.args[1]

\* How often e occurs in the array.
Count(array, e) == Cardinality({k \in 1 .. Len(array) : array[k] = e})

RECURSIVE Factorial(_)
Factorial(n) == IF n <= 1 THEN 1 ELSE n * Factorial(n - 1)

\* Whether the elements of the array differ from one another.
Distinct(array) ==
    \A p, q \in 1 .. Len(array) : array[p] = array[q] => p = q

\* C23: shuffleArray returns a permutation of its input: the same length
\* and every element as often as in the input.  For n different elements
\* there are n! sequences of draws j in 0 .. i (i from n - 1 down to 1), and
\* no two of them give the same order, so every one of the n! orders comes
\* from exactly one sequence of draws.
ShuffleIsOneToOneOnDraws ==
    call.fn = "shuffleArray" =>
        LET array == call.args[1]
            n == Len(array)
        IN  /\ Len(call.result) = n
            /\ \A k \in 1 .. n :
                   Count(call.result, array[k]) = Count(array, array[k])
            /\ Distinct(array) =>
                   /\ Cardinality(IndexDraws(n)) = Factorial(n)
                   /\ \A other \in IndexDraws(n) :
                          shuffleArrayCall(array, other).returned = call.result
                              => other = call.args[2]

\* Four different words have come back in the opposite order.
FourWordsReversed ==
    /\ call.fn = "shuffleArray"
    /\ call.args[1] = UniquePool(4)
    /\ call.result = << <<"d">>, <<"c">>, <<"b">>, <<"a">> >>

\* C24: the word pool is always what rebuilding it from the current source
\* gives: the selected column of the parsed table when one is held, the
\* processed text of the input field otherwise.
WordsRebuiltFromSource ==
    words = IF parsedFileData.isNull
            THEN processWords(wordInput)
            ELSE extractWordsFromParsedData(parsedFileData, selectedFileColumn)

\* Text was typed, then a file was parsed and its second column chosen: the
\* pool is that column's two words.
SecondColumnIsThePool ==
    /\ ~parsedFileData.isNull
    /\ selectedFileColumn = 1
    /\ wordInput = TextNine
    /\ words = << <<"x">>, <<"y">> >>

\* An export has just ended and told the user so.
ExportEnded ==
    /\ exports = EmptyBag
    /\ \/ ended.outcome = "ok" /\ success = SuccessOf(ended.kind)
       \/ ended.outcome = "error" /\ error = FailureOf(ended.kind)

\* C25: when every await of an export settles, an export that has started
\* ends, with its success message or with its error message set.  On its
\* way it hands each element to html2canvas at most once: the element in
\* work is the one after those already rasterized.  After a failure it is
\* gone, so it starts no further rasterization.
ExportsRunToTheEnd ==
    /\ (exports # EmptyBag) ~> ExportEnded
    /\ [](\A task \in BagToSet(exports) :
            /\ task.i <= Len(task.elements)
            /\ Len(task.items) = task.i
            /\ task.phase = "raster" => task.i < Len(task.elements))
    /\ [](ended.outcome = "error" => exports = EmptyBag)

\* A PDF export failed at its second element, after one rasterization.
PdfFailedAtSecondElement ==
    /\ ended.kind = "pdf"
    /\ ended.outcome = "error"
    /\ ended.found = 2
    /\ Len(ended.items) = 1
    /\ error = FailureOf("pdf")
    /\ exports = EmptyBag

\* A click on Generate or Regenerate whose generation succeeds in this step.
GenerationSucceeds ==
    /\ \/ GenerateCards(0 .. RandLevels - 1)
       \/ RegenerateCards(0 .. RandLevels - 1)
    /\ error' = NoMsg

\* C26: every card held has card.gridSize * card.gridSize words, whatever
\* was generated, regenerated, deleted or reconfigured before; and after a
\* generation that succeeds the cards held are the new batch and nothing
\* else: numCards cards, card-1 onwards, of the configured grid size, made
\* of words of the pool.
HeldCardsAreWholeAndFresh ==
    /\ [](\A k \in 1 .. Len(generatedCards) :
            Len(generatedCards[k].words)
                = generatedCards[k].gridSize * generatedCards[k].gridSize)
    /\ [][GenerationSucceeds =>
            /\ Len(generatedCards') = cardConfig.numCards
            /\ \A k \in 1 .. Len(generatedCards') :
                 /\ generatedCards'[k].id = <<"card-", k>>
                 /\ generatedCards'[k].gridSize = cardConfig.gridSize
                 /\ \A c \in 1 .. Len(generatedCards'[k].words) :
                      \E w \in 1 .. Len(words) :
                          generatedCards'[k].words[c] = words[w]]_vars

\* Two cards of nine words were generated, one was deleted and the grid
\* size set to 4: the card held is still the whole 3x3 card.
WholeCardOutlivesItsConfig ==
    /\ Len(generatedCards) = 1
    /\ generatedCards[1].gridSize = 3
    /\ Len(generatedCards[1].words) = 9
    /\ cardConfig.gridSize = 4
    /\ success = Msg("Generated _ bingo card(s) successfully!", 2, 0)

\* What the parser chosen by the file's name settles with.
ParseOf(file) ==
    IF file.ext = ".csv" THEN parseCSVFile(file) ELSE parseXLSXFile(file)

\* C27: once no parse is pending, the word pool is that of the user's most
\* recent input action: the processed text after a text edit, the chosen
\* column after a column click, the first column of the file after an
\* upload whose parse succeeded; a parse that settles later than a text
\* edit does not put its words in place of the edit's.
PoolReflectsLastInput ==
    parses = <<>> =>
        /\ lastInput.kind = "text" =>
              /\ parsedFileData.isNull
              /\ words = processWords(wordInput)
        /\ lastInput.kind = "column" =>
              words = extractWordsFromParsedData(parsedFileData,
                                                 selectedFileColumn)
        /\ (lastInput.kind = "file" /\ ~ParseOf(lastInput.file).threw) =>
              /\ parsedFileData = ParseOf(lastInput.file).value[1]
              /\ words = extractWordsFromParsedData(parsedFileData, 0)

\* C28: a delete takes out the one card it was clicked on and leaves the
\* others as they were, in their order; it changes neither the word pool
\* nor the configuration; and the ids of the cards held differ from one
\* another after any generating, regenerating and deleting.
DeleteTakesOutOneCard ==
    /\ [](\A p, q \in 1 .. Len(generatedCards) :
            generatedCards[p].id = generatedCards[q].id => p = q)
    /\ [][\A k \in 1 .. Len(generatedCards) :
            DeleteCard(k) =>
                /\ generatedCards' =
                       SubSeq(generatedCards, 1, k - 1)
                           \o SubSeq(generatedCards, k + 1, Len(generatedCards))
                /\ UNCHANGED <<words, wordInput, parsedFileData, cardConfig,
                               sizeConfig>>]_vars

\* Of two cards the first was deleted: card-2 is held alone, with the
\* message of its generation still shown.
SecondCardLeftAlone ==
    /\ Len(generatedCards) = 1
    /\ generatedCards[1].id = <<"card-", 2>>
    /\ success = Msg("Generated _ bingo card(s) successfully!", 2, 0)
    /\ cardConfig.numCards = 2

\* C29: the error message and the success message are never shown
\* together: an operation that fails leaves no success message of an
\* earlier operation beside its error, and one that succeeds leaves no
\* earlier error.
AtMostOneMessageShown == error = NoMsg \/ success = NoMsg

\* C30: the size configuration agrees with its preset: under the preset
\* A4 or Letter, width and height are those getSizePresetDimensions gives
\* for the preset and the unit; and a card is rendered convertSize(width)
\* by convertSize(height) pixels, converted from the configured unit.
SizeAgreesWithPreset ==
    /\ sizeConfig.preset \in {"A4", "Letter"} =>
          /\ sizeConfig.width =
                getSizePresetDimensions(sizeConfig.preset, sizeConfig.unit).width
          /\ sizeConfig.height =
                getSizePresetDimensions(sizeConfig.preset, sizeConfig.unit).height
    /\ containerWidth(sizeConfig)
          = 100 * convertSize(sizeConfig.width, sizeConfig.unit, "px")
    /\ containerHeight(sizeConfig)
          = 100 * convertSize(sizeConfig.height, sizeConfig.unit, "px")

====
